---- MODULE Spec2Model ----
(***************************************************************************)
(* Model of performance.cpp: the harness test<SerializationT, DataT>() that *)
(* times boost and cereal binary archives on a payload, the two adapters,  *)
(* and the serialize() members of the payload records.                     *)
(*                                                                         *)
(* Scalars are modelled by their object representation (an unsigned        *)
(* integer of the type's width), which is what a binary archive copies.    *)
(* Doubles computed by the harness (averages, ratios) are exact fractions  *)
(* <<n, d>>; a zero denominator is the IEEE result of dividing by zero:    *)
(* <<0, 0>> is NaN and <<1, 0>> is +Inf.  The values handed to             *)
(* boost::format are modelled, not the rendered text.                      *)
(***************************************************************************)
EXTENDS Integers, Sequences, FiniteSets, TLC

\* ------------------------------------------------------------------ bounds

\* largest numAverages
MaxAverages == 2
\* largest elapsed time (ms) one save or load can take
MaxSample == 1
\* longest payload sequence
MaxLen == 2
\* number of floats PoDChild() puts in v (1024 in the source, scaled down)
NestedSize == 1

\* ----------------------------------------------------------- payload types

Kinds == {"double", "uint8", "PoDStruct", "PoDChild"}

\* representative object representations of a wide scalar and of a byte
WideVals == {0, 258}
ByteVals == {0, 255}

\* struct PoDStruct { int32_t a; int64_t b; float c; double d; }
PoDStruct == { [a |-> 0, b |-> 0, c |-> 0, d |-> 0],
               [a |-> 258, b |-> 2, c |-> 3, d |-> 4] }

SeqsUpTo(S, n) == UNION { [1..k -> S] : k \in 0..n }

\* representative values of std::vector<float> v (always NestedSize elements):
\* all zero, as PoDChild() makes it, and pairwise different elements
NestedVecs == { [k \in 1..NestedSize |-> 0], [k \in 1..NestedSize |-> 258 + k] }

\* struct PoDChild : PoDStruct { std::vector<float> v; }
PoDChild == { [a |-> s.a, b |-> s.b, c |-> s.c, d |-> s.d, v |-> w] :
              s \in PoDStruct, w \in NestedVecs }

ElemsOf(kind) ==
  CASE kind = "double" -> WideVals
    [] kind = "uint8" -> ByteVals
    [] kind = "PoDStruct" -> PoDStruct
    [] kind = "PoDChild" -> PoDChild

\* every DataT value test() can be given, up to MaxLen elements
Payloads ==
  UNION { { [kind |-> k, elems |-> e] : e \in SeqsUpTo(ElemsOf(k), MaxLen) } : k \in Kinds }

\* the payloads main() builds with randomize = false: one zero-filled element
\* (the base fields of a PoDChild are left uninitialised by PoDChild())
ZeroVec == [k \in 1..NestedSize |-> 0]

DriverPayloads ==
  { [kind |-> "double", elems |-> <<0>>],
    [kind |-> "uint8", elems |-> <<0>>],
    [kind |-> "PoDStruct", elems |-> <<[a |-> 0, b |-> 0, c |-> 0, d |-> 0]>>] } \cup
  { [kind |-> "PoDChild",
     elems |-> <<[a |-> s.a, b |-> s.b, c |-> s.c, d |-> s.d, v |-> ZeroVec]>>] :
    s \in PoDStruct }

NoPayload == [kind |-> "none", elems |-> <<>>]
Malformed == [kind |-> "malformed", elems |-> <<>>]

\* ------------------------------------------------------ binary archive I/O

RECURSIVE LE(_, _)
\* the w bytes of n, least significant first
LE(n, w) == IF w = 0 THEN <<>> ELSE <<n % 256>> \o LE(n \div 256, w - 1)

RECURSIVE FromLE(_)
FromLE(bytes) == IF bytes = <<>> THEN 0 ELSE bytes[1] + 256 * FromLE(Tail(bytes))

\* sizeof of the scalar kinds
WidthOf(kind) ==
  CASE kind = "double" -> 8
    [] kind = "uint8" -> 1
    [] kind = "float" -> 4
    [] kind = "int32" -> 4
    [] kind = "int64" -> 8
    [] kind = "size_t" -> 8

Fail(pos) == [ok |-> FALSE, val |-> 0, pos |-> pos]

\* whether w more bytes can be read at pos
Has(bytes, pos, w) == pos + w - 1 <= Len(bytes)

\* the scalar held by the w bytes at pos
Field(bytes, pos, w) == FromLE(SubSeq(bytes, pos, pos + w - 1))

\* archive >> scalar: the next w bytes, or failure on a truncated source
ReadScalar(bytes, pos, w) ==
  IF Has(bytes, pos, w)
  THEN [ok |-> TRUE, val |-> Field(bytes, pos, w), pos |-> pos + w]
  ELSE Fail(pos)

RECURSIVE WriteScalars(_, _)
WriteScalars(vals, w) ==
  IF vals = <<>> THEN <<>> ELSE LE(Head(vals), w) \o WriteScalars(Tail(vals), w)

\* n scalars of w bytes each
ReadScalars(bytes, pos, w, n) ==
  IF Has(bytes, pos, n * w)
  THEN [ok |-> TRUE, val |-> [k \in 1..n |-> Field(bytes, pos + (k - 1) * w, w)],
        pos |-> pos + n * w]
  ELSE Fail(pos)

\* a vector of scalars: the element count, then the elements
WriteScalarVector(vals, w) == LE(Len(vals), WidthOf("size_t")) \o WriteScalars(vals, w)

ReadScalarVector(bytes, pos, w) ==
  IF Has(bytes, pos, WidthOf("size_t")) /\ Field(bytes, pos, WidthOf("size_t")) <= Len(bytes)
  THEN ReadScalars(bytes, pos + WidthOf("size_t"), w, Field(bytes, pos, WidthOf("size_t")))
  ELSE Fail(pos)

\* ------------------------------------------------- serialize() of the records

\* PoDStruct::serialize, saving: ar & a & b & c & d
PoDStructSave(s) ==
  LE(s.a, WidthOf("int32")) \o LE(s.b, WidthOf("int64")) \o
  LE(s.c, WidthOf("float")) \o LE(s.d, WidthOf("double"))

\* sizeof of the four fields as archived
PoDStructWidth == WidthOf("int32") + WidthOf("int64") + WidthOf("float") + WidthOf("double")

\* PoDStruct::serialize, loading: ar & a & b & c & d
PoDStructLoad(bytes, pos) ==
  IF Has(bytes, pos, PoDStructWidth)
  THEN [ok |-> TRUE,
        val |-> [a |-> Field(bytes, pos, WidthOf("int32")),
                 b |-> Field(bytes, pos + WidthOf("int32"), WidthOf("int64")),
                 c |-> Field(bytes, pos + WidthOf("int32") + WidthOf("int64"), WidthOf("float")),
                 d |-> Field(bytes, pos + WidthOf("int32") + WidthOf("int64") + WidthOf("float"),
                             WidthOf("double"))],
        pos |-> pos + PoDStructWidth]
  ELSE Fail(pos)

\* static_cast<PoDStruct>(*this): a temporary copy of the base sub-object
BaseCopy(self) == [a |-> self.a, b |-> self.b, c |-> self.c, d |-> self.d]

\* PoDChild::serialize(Archive &), saving: the copy of the base, then v
PoDChildSave(self) ==
  PoDStructSave(BaseCopy(self)) \o WriteScalarVector(self.v, WidthOf("float"))

\* PoDChild::serialize(Archive &), loading: the base is read into the temporary
\* copy, which is dropped; only v is read into *this
PoDChildLoad(bytes, pos, self) ==
  LET tmp == PoDStructLoad(bytes, pos)
      v == ReadScalarVector(bytes, pos + PoDStructWidth, WidthOf("float"))
  IN IF tmp.ok /\ v.ok
     THEN [ok |-> TRUE, val |-> [self EXCEPT !.v = v.val], pos |-> v.pos]
     ELSE Fail(pos)

\* PoDChild::serialize(Archive &, version), saving: base_object<PoDStruct>(*this), then v
PoDChildSaveVersioned(self) ==
  PoDStructSave(self) \o WriteScalarVector(self.v, WidthOf("float"))

\* PoDChild::serialize(Archive &, version), loading: base_object refers to *this
PoDChildLoadVersioned(bytes, pos, self) ==
  LET base == PoDStructLoad(bytes, pos)
      v == ReadScalarVector(bytes, pos + PoDStructWidth, WidthOf("float"))
  IN IF base.ok /\ v.ok
     THEN [ok |-> TRUE,
           val |-> [a |-> base.val.a, b |-> base.val.b, c |-> base.val.c,
                    d |-> base.val.d, v |-> v.val],
           pos |-> v.pos]
     ELSE Fail(pos)

\* PoDChild(): v(1024); the base fields are left uninitialised (junk)
NewPoDChild(junk) == [a |-> junk.a, b |-> junk.b, c |-> junk.c, d |-> junk.d, v |-> ZeroVec]

ZeroPoD == [a |-> 0, b |-> 0, c |-> 0, d |-> 0]

JunkAt(junk, k) == IF k \in DOMAIN junk THEN junk[k] ELSE ZeroPoD

\* ----------------------------------------------------------- the adapters

Adapters == {"boost", "cereal"}

\* what precedes the data in a boost binary archive (signature and version)
BoostHeader == <<22, 115, 9>>

SaveElem(adapter, kind, e) ==
  CASE kind = "double" -> LE(e, WidthOf("double"))
    [] kind = "uint8" -> LE(e, WidthOf("uint8"))
    [] kind = "PoDStruct" -> PoDStructSave(e)
    [] kind = "PoDChild" ->
         IF adapter = "cereal" THEN PoDChildSave(e) ELSE PoDChildSaveVersioned(e)

RECURSIVE SaveElems(_, _, _)
SaveElems(adapter, kind, elems) ==
  IF elems = <<>> THEN <<>>
  ELSE SaveElem(adapter, kind, Head(elems)) \o SaveElems(adapter, kind, Tail(elems))

\* archive & std::vector<T>: the element count, then every element
SaveVector(adapter, data) ==
  LE(Len(data.elems), WidthOf("size_t")) \o SaveElems(adapter, data.kind, data.elems)

\* element k of a loaded vector; junk is what the uninitialised fields of the
\* elements made by resize() happen to hold
LoadElem(adapter, kind, bytes, pos, k, junk) ==
  CASE kind = "double" -> ReadScalar(bytes, pos, WidthOf("double"))
    [] kind = "uint8" -> ReadScalar(bytes, pos, WidthOf("uint8"))
    [] kind = "PoDStruct" -> PoDStructLoad(bytes, pos)
    [] kind = "PoDChild" ->
         IF adapter = "cereal"
         THEN PoDChildLoad(bytes, pos, NewPoDChild(JunkAt(junk, k)))
         ELSE PoDChildLoadVersioned(bytes, pos, NewPoDChild(JunkAt(junk, k)))

RECURSIVE LoadElems(_, _, _, _, _, _, _)
LoadElems(adapter, kind, bytes, pos, k, n, junk) ==
  IF k > n THEN [ok |-> TRUE, val |-> <<>>, pos |-> pos]
  ELSE LET e == LoadElem(adapter, kind, bytes, pos, k, junk) IN
       IF ~e.ok THEN Fail(pos)
       ELSE LET rest == LoadElems(adapter, kind, bytes, e.pos, k + 1, n, junk) IN
            IF ~rest.ok THEN Fail(pos)
            ELSE [ok |-> TRUE, val |-> <<e.val>> \o rest.val, pos |-> rest.pos]

\* archive & std::vector<T>, loading into an empty vector of the given kind
LoadVector(adapter, kind, bytes, pos, junk) ==
  LET n == ReadScalar(bytes, pos, WidthOf("size_t")) IN
  IF ~n.ok \/ n.val > Len(bytes) THEN Malformed
  ELSE LET r == LoadElems(adapter, kind, bytes, n.pos, 1, n.val, junk) IN
       IF r.ok THEN [kind |-> kind, elems |-> r.val] ELSE Malformed

\* cerealBinary::save: BinaryOutputArchive oar(os); oar & data
cerealBinarySave(os, data) == os \o SaveVector("cereal", data)

\* cerealBinary::load: BinaryInputArchive iar(is); iar & data
cerealBinaryLoad(is, kind, junk) == LoadVector("cereal", kind, is, 1, junk)

\* boostBinary::save: binary_oarchive oar(os); oar & data
boostBinarySave(os, data) == os \o BoostHeader \o SaveVector("boost", data)

\* boostBinary::load: binary_iarchive iar(is); iar & data
boostBinaryLoad(is, kind, junk) ==
  IF Len(is) >= Len(BoostHeader) /\ SubSeq(is, 1, Len(BoostHeader)) = BoostHeader
  THEN LoadVector("boost", kind, is, Len(BoostHeader) + 1, junk)
  ELSE Malformed

\* ------------------------------------------------------------- arithmetic

RECURSIVE GCD(_, _)
GCD(x, y) == IF y = 0 THEN x ELSE GCD(y, x % y)

\* the double n / d
Norm(n, d) ==
  IF d = 0 THEN (IF n = 0 THEN <<0, 0>> ELSE <<1, 0>>)
  ELSE LET g == GCD(n, d) IN <<n \div g, d \div g>>

\* static_cast<double>(n)
ToDouble(n) == <<n, 1>>

\* x / y on doubles
DDiv(x, y) == Norm(x[1] * y[2], x[2] * y[1])

NaN == <<0, 0>>
Inf == <<1, 0>>

\* ------------------------------------------------------------ the harness

VARIABLES
  data,             \* test(): DataT const & data
  numAverages,      \* test(): size_t numAverages
  validateData,     \* test(): bool validateData
  pc,               \* position in test()
  i,                \* the loop counter
  totalBoostSave, totalBoostLoad, totalCerealSave, totalCerealLoad,
  boostSize, cerealSize,
  boostOs,          \* std::ostringstream os of the "Boost" block
  cerealOs,         \* std::ostringstream os of the "Cereal" block
  boostLoaded,      \* loadResult.first of the "Boost" block
  cerealLoaded,     \* loadResult.first of the "Cereal" block
  report,           \* the values written to std::cout, NoReport before that
  failed,           \* whether the test has been failed or refused
  calls,            \* history: number of invocations of each adapter operation
  sampleSum,        \* history: sum of the elapsed times returned by each operation
  ops,              \* history: adapter operations of the current iteration, in order
  lastWrite,        \* history: the last save: adapter, iteration, payload passed,
                    \*          sink length when it began, bytes it wrote
  lastRead,         \* history: the last load: adapter, iteration, bytes of its source
  firstOut,         \* history: length of each adapter's output in iteration 1
  sizeAssigned,     \* history: iterations (from 1) in which each size was assigned
  comparisons,      \* history: number of loaded == original comparisons made
  mismatched        \* history: whether some loaded payload differed from data

vars == <<data, numAverages, validateData, pc, i,
          totalBoostSave, totalBoostLoad, totalCerealSave, totalCerealLoad,
          boostSize, cerealSize, boostOs, cerealOs, boostLoaded, cerealLoaded,
          report, failed, calls, sampleSum, ops, lastWrite, lastRead,
          firstOut, sizeAssigned, comparisons, mismatched>>

Operations == {"boostSave", "boostLoad", "cerealSave", "cerealLoad"}

NoReport == [printed |-> FALSE]
NoWrite == [adapter |-> "none", iter |-> 0, payload |-> NoPayload, before |-> 0, bytes |-> <<>>]
NoRead == [adapter |-> "none", iter |-> 0, bytes |-> <<>>]

\* the state at the opening brace of test(), after the totals and sizes are zeroed
Start(d, n, v) ==
  /\ data = d
  /\ numAverages = n
  /\ validateData = v
  /\ pc = "loop"
  /\ i = 0
  /\ totalBoostSave = 0 /\ totalBoostLoad = 0
  /\ totalCerealSave = 0 /\ totalCerealLoad = 0
  /\ boostSize = 0 /\ cerealSize = 0
  /\ boostOs = <<>> /\ cerealOs = <<>>
  /\ boostLoaded = NoPayload /\ cerealLoaded = NoPayload
  /\ report = NoReport
  /\ failed = FALSE
  /\ calls = [o \in Operations |-> 0]
  /\ sampleSum = [o \in Operations |-> 0]
  /\ ops = <<>>
  /\ lastWrite = NoWrite
  /\ lastRead = NoRead
  /\ firstOut = [a \in Adapters |-> 0]
  /\ sizeAssigned = [a \in Adapters |-> {}]
  /\ comparisons = 0
  /\ mismatched = FALSE

\* a driver payload, any repeat count, any clock
Init ==
  \E d \in DriverPayloads, n \in 0..MaxAverages, v \in BOOLEAN : Start(d, n, v)

\* any payload, any repeat count
InitData ==
  \E d \in Payloads, n \in 0..MaxAverages, v \in BOOLEAN : Start(d, n, v)

\* faulty variant: the loop runs once too often
LoopCondInclusive(k, n) == k <= n

\* for(size_t i = 0; i < numAverages; ++i)
LoopCond(k, n) == k < n

\* faulty variant: one stream kept across iterations
OpenSinkReused(prev) == prev

\* std::ostringstream os; a new, empty stream whatever an earlier one held
OpenSink(prev) == <<>>

\* os.tellp()
Tellp(os) == Len(os)

\* faulty variant: the size is assigned in every iteration
ShouldCaptureAlways(size) == TRUE

\* if(!boostSize) / if(!cerealSize)
ShouldCapture(size) == size = 0

\* faulty variant: the source is built before the sink's bytes are taken
LoadSourceEmpty(dataStream) == <<>>

\* loadData: std::istringstream os( dataStream.str() )
LoadSource(dataStream) == dataStream

\* total += sample
Accumulate(total, sample) == total + sample

\* if( validateData ) ; // TODO    -- the empty statement: nothing is compared
Validate(enabled, loaded, original, st) == st

\* faulty variant: integer division, the cast to double forgotten
AverageTruncated(total, n) == IF n = 0 THEN NaN ELSE ToDouble(total \div n)

\* total.count() / static_cast<double>( numAverages )
Average(total, n) == DDiv(ToDouble(total), ToDouble(n))

\* faulty variant: the ratio taken the wrong way round
RatioInverted(cereal, boost) == DDiv(boost, cereal)

\* averageCereal / averageBoost
Ratio(cereal, boost) == DDiv(cereal, boost)

\* the junk the uninitialised base fields of loaded PoDChild elements may hold
JunkChoices(d) ==
  IF d.kind = "PoDChild" THEN [1..Len(d.elems) -> PoDStruct] ELSE {<<>>}

LoopTest ==
  /\ pc = "loop"
  /\ IF LoopCond(i, numAverages)
     THEN pc' = "boostSave" /\ ops' = <<>>
     ELSE pc' = "averages" /\ ops' = ops
  /\ UNCHANGED <<data, numAverages, validateData, i,
                 totalBoostSave, totalBoostLoad, totalCerealSave, totalCerealLoad,
                 boostSize, cerealSize, boostOs, cerealOs, boostLoaded, cerealLoaded,
                 report, failed, calls, sampleSum, lastWrite, lastRead,
                 firstOut, sizeAssigned, comparisons, mismatched>>

\* lines 157-161: a new sink, saveData, the total, the size
BoostSave(elapsed) ==
  /\ pc = "boostSave"
  /\ LET os0 == OpenSink(boostOs)
         os1 == boostBinarySave(os0, data)
     IN /\ boostOs' = os1
        /\ lastWrite' = [adapter |-> "boost", iter |-> i + 1, payload |-> data,
                         before |-> Len(os0),
                         bytes |-> SubSeq(os1, Len(os0) + 1, Len(os1))]
        /\ firstOut' = IF i = 0 THEN [firstOut EXCEPT !["boost"] = Len(os1)] ELSE firstOut
        /\ IF ShouldCapture(boostSize)
           THEN /\ boostSize' = Tellp(os1)
                /\ sizeAssigned' = [sizeAssigned EXCEPT !["boost"] = @ \cup {i + 1}]
           ELSE UNCHANGED <<boostSize, sizeAssigned>>
  /\ totalBoostSave' = Accumulate(totalBoostSave, elapsed)
  /\ calls' = [calls EXCEPT !["boostSave"] = @ + 1]
  /\ sampleSum' = [sampleSum EXCEPT !["boostSave"] = @ + elapsed]
  /\ ops' = Append(ops, "boostSave")
  /\ pc' = "boostLoad"
  /\ UNCHANGED <<data, numAverages, validateData, i,
                 totalBoostLoad, totalCerealSave, totalCerealLoad,
                 cerealSize, cerealOs, boostLoaded, cerealLoaded,
                 report, failed, lastRead, comparisons, mismatched>>

\* lines 163-167: loadData from the block's sink, the total, the validation
BoostLoad(elapsed) ==
  /\ pc = "boostLoad"
  /\ \E junk \in JunkChoices(data) :
       LET src == LoadSource(boostOs)
           loaded == boostBinaryLoad(src, data.kind, junk)
           st == Validate(validateData, loaded, data,
                          [comparisons |-> comparisons, failed |-> failed])
       IN /\ boostLoaded' = loaded
          /\ lastRead' = [adapter |-> "boost", iter |-> i + 1, bytes |-> src]
          /\ comparisons' = st.comparisons
          /\ failed' = st.failed
          /\ mismatched' = (mismatched \/ loaded # data)
  /\ totalBoostLoad' = Accumulate(totalBoostLoad, elapsed)
  /\ calls' = [calls EXCEPT !["boostLoad"] = @ + 1]
  /\ sampleSum' = [sampleSum EXCEPT !["boostLoad"] = @ + elapsed]
  /\ ops' = Append(ops, "boostLoad")
  /\ pc' = "cerealSave"
  /\ UNCHANGED <<data, numAverages, validateData, i,
                 totalBoostSave, totalCerealSave, totalCerealLoad,
                 boostSize, cerealSize, boostOs, cerealOs, cerealLoaded,
                 report, lastWrite, firstOut, sizeAssigned>>

\* lines 172-176
CerealSave(elapsed) ==
  /\ pc = "cerealSave"
  /\ LET os0 == OpenSink(cerealOs)
         os1 == cerealBinarySave(os0, data)
     IN /\ cerealOs' = os1
        /\ lastWrite' = [adapter |-> "cereal", iter |-> i + 1, payload |-> data,
                         before |-> Len(os0),
                         bytes |-> SubSeq(os1, Len(os0) + 1, Len(os1))]
        /\ firstOut' = IF i = 0 THEN [firstOut EXCEPT !["cereal"] = Len(os1)] ELSE firstOut
        /\ IF ShouldCapture(cerealSize)
           THEN /\ cerealSize' = Tellp(os1)
                /\ sizeAssigned' = [sizeAssigned EXCEPT !["cereal"] = @ \cup {i + 1}]
           ELSE UNCHANGED <<cerealSize, sizeAssigned>>
  /\ totalCerealSave' = Accumulate(totalCerealSave, elapsed)
  /\ calls' = [calls EXCEPT !["cerealSave"] = @ + 1]
  /\ sampleSum' = [sampleSum EXCEPT !["cerealSave"] = @ + elapsed]
  /\ ops' = Append(ops, "cerealSave")
  /\ pc' = "cerealLoad"
  /\ UNCHANGED <<data, numAverages, validateData, i,
                 totalBoostSave, totalBoostLoad, totalCerealLoad,
                 boostSize, boostOs, boostLoaded, cerealLoaded,
                 report, failed, lastRead, comparisons, mismatched>>

\* lines 178-184: loadData, the total, the validation, ++i
CerealLoad(elapsed) ==
  /\ pc = "cerealLoad"
  /\ \E junk \in JunkChoices(data) :
       LET src == LoadSource(cerealOs)
           loaded == cerealBinaryLoad(src, data.kind, junk)
           st == Validate(validateData, loaded, data,
                          [comparisons |-> comparisons, failed |-> failed])
       IN /\ cerealLoaded' = loaded
          /\ lastRead' = [adapter |-> "cereal", iter |-> i + 1, bytes |-> src]
          /\ comparisons' = st.comparisons
          /\ failed' = st.failed
          /\ mismatched' = (mismatched \/ loaded # data)
  /\ totalCerealLoad' = Accumulate(totalCerealLoad, elapsed)
  /\ calls' = [calls EXCEPT !["cerealLoad"] = @ + 1]
  /\ sampleSum' = [sampleSum EXCEPT !["cerealLoad"] = @ + elapsed]
  /\ ops' = Append(ops, "cerealLoad")
  /\ i' = i + 1
  /\ pc' = "loop"
  /\ UNCHANGED <<data, numAverages, validateData,
                 totalBoostSave, totalBoostLoad, totalCerealSave,
                 boostSize, cerealSize, boostOs, cerealOs, boostLoaded,
                 report, lastWrite, firstOut, sizeAssigned>>

\* lines 186-212: the averages, the ratios, the four printed rows
Report ==
  /\ pc = "averages"
  /\ LET averageBoostSave == Average(totalBoostSave, numAverages)
         averageBoostLoad == Average(totalBoostLoad, numAverages)
         averageCerealSave == Average(totalCerealSave, numAverages)
         averageCerealLoad == Average(totalCerealLoad, numAverages)
         cerealSaveP == Ratio(averageCerealSave, averageBoostSave)
         cerealLoadP == Ratio(averageCerealLoad, averageBoostLoad)
         cerealSizeP == Ratio(ToDouble(cerealSize), ToDouble(boostSize))
     IN report' =
          [printed |-> TRUE,
           boostSave |-> [time |-> averageBoostSave, ratio |-> ToDouble(1),
                          kb |-> DDiv(ToDouble(boostSize), ToDouble(1024)),
                          sizeRatio |-> ToDouble(1), total |-> ToDouble(totalBoostSave)],
           boostLoad |-> [time |-> averageBoostLoad, ratio |-> ToDouble(1),
                          total |-> ToDouble(totalBoostLoad)],
           cerealSave |-> [time |-> averageCerealSave, ratio |-> cerealSaveP,
                           kb |-> DDiv(ToDouble(cerealSize), ToDouble(1024)),
                           sizeRatio |-> cerealSizeP, total |-> ToDouble(totalCerealSave)],
           cerealLoad |-> [time |-> averageCerealLoad, ratio |-> cerealLoadP,
                           total |-> ToDouble(totalCerealLoad)]]
  /\ pc' = "done"
  /\ UNCHANGED <<data, numAverages, validateData, i,
                 totalBoostSave, totalBoostLoad, totalCerealSave, totalCerealLoad,
                 boostSize, cerealSize, boostOs, cerealOs, boostLoaded, cerealLoaded,
                 failed, calls, sampleSum, ops, lastWrite, lastRead,
                 firstOut, sizeAssigned, comparisons, mismatched>>

\* high_resolution_clock: the elapsed times one operation can be measured to take
Elapsed == 0..MaxSample

Next ==
  \/ LoopTest
  \/ \E e \in Elapsed : BoostSave(e)
  \/ \E e \in Elapsed : BoostLoad(e)
  \/ \E e \in Elapsed : CerealSave(e)
  \/ \E e \in Elapsed : CerealLoad(e)
  \/ Report

Spec == Init /\ [][Next]_vars

\* every payload kind and content, with operations too fast for the clock
NextData ==
  \/ LoopTest
  \/ BoostSave(0)
  \/ BoostLoad(0)
  \/ CerealSave(0)
  \/ CerealLoad(0)
  \/ Report

SpecData == InitData /\ [][NextData]_vars

\* ---------------------------------------------------------------- properties

SaveOf(a) == IF a = "boost" THEN "boostSave" ELSE "cerealSave"
SizeOf(a) == IF a = "boost" THEN boostSize ELSE cerealSize
TotalOf(o) ==
  CASE o = "boostSave" -> totalBoostSave
    [] o = "boostLoad" -> totalBoostLoad
    [] o = "cerealSave" -> totalCerealSave
    [] o = "cerealLoad" -> totalCerealLoad
RowOf(o) ==
  CASE o = "boostSave" -> report.boostSave
    [] o = "boostLoad" -> report.boostLoad
    [] o = "cerealSave" -> report.cerealSave
    [] o = "cerealLoad" -> report.cerealLoad

\* x * k = y for a double x and integers k, y
TimesIs(x, k, y) == x[2] > 0 /\ x[1] * k = y * x[2]

\* the result of a division by zero
DivByZeroResult(x) == x[2] = 0

IterationOrder == <<"boostSave", "boostLoad", "cerealSave", "cerealLoad">>

\* C1: when test() returns with numAverages = N > 0, each adapter's save and each
\* adapter's load has been invoked exactly N times.
C1_ExactlyNCalls ==
  (pc = "done" /\ numAverages > 0) => \A o \in Operations : calls[o] = numAverages

C1_Witness ==
  pc = "done" /\ numAverages = MaxAverages /\ \A o \in Operations : calls[o] = MaxAverages

\* C2: with numAverages = 0 the test is refused before the loop: the averaging
\* code is never reached and nothing is printed.
C2_ZeroRejected ==
  numAverages = 0 => (pc \notin {"averages", "done"} /\ ~report.printed)

\* C3: a ratio whose baseline (average boost save, average boost load, boost size)
\* is zero is not computed by dividing by that baseline.
C3_RatiosGuarded ==
  report.printed =>
    /\ report.boostSave.time = ToDouble(0) => ~DivByZeroResult(report.cerealSave.ratio)
    /\ report.boostLoad.time = ToDouble(0) => ~DivByZeroResult(report.cerealLoad.ratio)
    /\ boostSize = 0 => ~DivByZeroResult(report.cerealSave.sizeRatio)

\* C4: for every payload kind and both adapters, what load returns equals the
\* payload that was saved, in every field.
C4_RoundTrip ==
  /\ boostLoaded # NoPayload => boostLoaded = data
  /\ cerealLoaded # NoPayload => cerealLoaded = data

\* the round trips the code does get right: every kind through boost, and every
\* kind but PoDChild through cereal
RoundTripExceptCerealChild ==
  /\ boostLoaded # NoPayload => boostLoaded = data
  /\ (cerealLoaded # NoPayload /\ data.kind # "PoDChild") => cerealLoaded = data
  /\ (cerealLoaded # NoPayload /\ data.kind = "PoDChild") =>
       /\ Len(cerealLoaded.elems) = Len(data.elems)
       /\ \A k \in 1..Len(data.elems) : cerealLoaded.elems[k].v = data.elems[k].v

\* C5: with validateData, each loaded payload is compared with the original (two
\* comparisons per iteration) and the test fails when one differs.
C5_Validated ==
  (validateData /\ pc = "done") =>
    /\ comparisons = 2 * numAverages
    /\ mismatched => failed

C7_OrderAndSource ==
  /\ Len(ops) <= Len(IterationOrder) /\ ops = SubSeq(IterationOrder, 1, Len(ops))
  /\ pc = "cerealSave" =>
       /\ ops = SubSeq(IterationOrder, 1, 2)
       /\ lastWrite.adapter = "boost" /\ lastWrite.iter = i + 1
       /\ lastRead.adapter = "boost" /\ lastRead.iter = i + 1
       /\ lastRead.bytes = lastWrite.bytes
  /\ (pc = "loop" /\ i > 0) =>
       /\ ops = IterationOrder
       /\ lastWrite.adapter = "cereal" /\ lastWrite.iter = i
       /\ lastRead.adapter = "cereal" /\ lastRead.iter = i
       /\ lastRead.bytes = lastWrite.bytes

C7_Witness ==
  /\ pc = "loop" /\ i = MaxAverages /\ ops = IterationOrder
  /\ data.kind = "PoDChild" /\ Len(data.elems) = MaxLen
  /\ lastRead.adapter = "cereal" /\ lastRead.bytes = lastWrite.bytes
  /\ lastRead.bytes # boostOs

\* C8: each total is the sum of the elapsed times of its own operation, N of them
\* when the loop has ended, and each printed average times N is its total.
C8_TotalsAndAverages ==
  /\ \A o \in Operations : TotalOf(o) = sampleSum[o]
  /\ (pc = "done" /\ numAverages > 0) =>
       \A o \in Operations :
         /\ calls[o] = numAverages
         /\ TimesIs(RowOf(o).time, numAverages, TotalOf(o))
         /\ RowOf(o).total = ToDouble(TotalOf(o))

C8_Witness ==
  /\ pc = "done" /\ numAverages = 2
  /\ totalBoostSave = 1 /\ totalBoostLoad = 0 /\ totalCerealSave = 2 /\ totalCerealLoad = 1
  /\ report.boostSave.time = <<1, 2>> /\ report.cerealSave.time = <<1, 1>>

\* C9: for N > 0, each printed cereal ratio with a nonzero baseline is cereal's
\* value divided by boost's; twice the boost save time prints 2; boost's own
\* ratios are 1.
C9_Ratios ==
  (report.printed /\ numAverages > 0) =>
    /\ report.boostSave.ratio = ToDouble(1)
    /\ report.boostLoad.ratio = ToDouble(1)
    /\ report.boostSave.sizeRatio = ToDouble(1)
    /\ totalBoostSave # 0 =>
         TimesIs(report.cerealSave.ratio, totalBoostSave, totalCerealSave)
    /\ totalBoostLoad # 0 =>
         TimesIs(report.cerealLoad.ratio, totalBoostLoad, totalCerealLoad)
    /\ boostSize # 0 => TimesIs(report.cerealSave.sizeRatio, boostSize, cerealSize)
    /\ (totalBoostSave # 0 /\ totalCerealSave = 2 * totalBoostSave) =>
         report.cerealSave.ratio = ToDouble(2)

C9_Witness ==
  /\ report.printed /\ numAverages = 2
  /\ totalBoostSave = 1 /\ totalCerealSave = 2 /\ report.cerealSave.ratio = ToDouble(2)
  /\ totalBoostLoad = 2 /\ totalCerealLoad = 1 /\ report.cerealLoad.ratio = <<1, 2>>
  /\ boostSize > cerealSize /\ cerealSize > 0

\* C10: every save starts on an empty sink and is passed the unmodified payload,
\* and the size captured for an adapter is the number of bytes one save wrote.
C10_FreshSink ==
  lastWrite.adapter # "none" =>
    /\ lastWrite.before = 0
    /\ lastWrite.payload = data
    /\ SizeOf(lastWrite.adapter) = Len(lastWrite.bytes)

C10_Witness ==
  /\ lastWrite.adapter = "cereal" /\ lastWrite.iter = MaxAverages
  /\ lastWrite.before = 0 /\ cerealSize = Len(lastWrite.bytes)
  /\ boostOs # <<>> /\ Len(data.elems) > 0

====
